---- MODULE Spec2Model ----
(***************************************************************************)
(* Model of the article analyzer backend:                                  *)
(*   - SummarizerWorkflow (summarizer_workflow.py): the three-stage        *)
(*     pipeline extract_content -> generate_summary -> extract_key_points  *)
(*   - RAGService (rag_service.py): connection retry, add/search/get/      *)
(*     delete/stats over the vector store                                  *)
(*   - create_article (main.py): run, persist article, persist summary,    *)
(*     index, respond                                                      *)
(***************************************************************************)
EXTENDS Integers, Sequences, FiniteSets, TLC

VARIABLES
    wpc,        \* per run: position in the workflow graph
    wstate,     \* per run: the state dict threaded through the nodes
    wret,       \* per run: what run() returned or raised
    llmCalls,   \* per run: sequence of generation-backend requests issued
    wpage,      \* per run: what the world answered to the extraction stage
    client,         \* RAGService.client
    collection,     \* RAGService.collection
    embedding_model,\* RAGService.embedding_model
    ipc,            \* position inside RAGService.initialize
    attempt,        \* the retry loop's variable
    probes,         \* outcome of every connection attempt so far
    sleeps,         \* every backoff delay slept so far
    store,          \* the vector store's "articles" collection: id -> document
    last,           \* the last RAGService call: arguments, backend fault, result
    env,            \* what the outside world can answer (fixed per behaviour)
    apc,            \* per request: position inside create_article
    areq,           \* per request: the ArticleCreate body
    alocal,         \* per request: create_article's local article and summary
    aresp,          \* per request: the HTTP response
    db_articles,    \* committed rows of table articles
    db_summaries    \* committed rows of table summaries

wvars == <<wpc, wstate, wret, llmCalls, wpage>>
ivars == <<client, collection, embedding_model, ipc, attempt, probes, sleeps>>
svars == <<store, last>>
avars == <<apc, areq, alocal, aresp, db_articles, db_summaries>>

(***************************************************************************)
(* Texts.  A text is a sequence of segments; a segment [k, b, n] is n      *)
(* characters of kind k: "txt" = the first n characters of base text b,    *)
(* "ws" = n blanks, "nl" = n newlines.  Only prefixes are ever taken of a  *)
(* text, so a "txt" segment always denotes a prefix of its base.           *)
(***************************************************************************)
Seg(k, b, n) == [k |-> k, b |-> b, n |-> n]
Txt(b, n) == IF n = 0 THEN <<>> ELSE <<Seg("txt", b, n)>>
Ws(n) == IF n = 0 THEN <<>> ELSE <<Seg("ws", " ", n)>>
Nl(n) == IF n = 0 THEN <<>> ELSE <<Seg("nl", "\n", n)>>
Empty == <<>>

IsSpace(seg) == seg.k \in {"ws", "nl"}

\* len(t)
RECURSIVE TLen(_)
TLen(t) == IF t = <<>> THEN 0 ELSE Head(t).n + TLen(Tail(t))

\* t[:n]
RECURSIVE Slice(_, _)
Slice(t, n) ==
    IF t = <<>> \/ n <= 0 THEN <<>>
    ELSE IF Head(t).n <= n THEN <<Head(t)>> \o Slice(Tail(t), n - Head(t).n)
    ELSE <<[Head(t) EXCEPT !.n = n]>>

RECURSIVE LStrip(_)
LStrip(t) == IF t # <<>> /\ IsSpace(Head(t)) THEN LStrip(Tail(t)) ELSE t

RECURSIVE RStrip(_)
RStrip(t) ==
    IF t # <<>> /\ IsSpace(t[Len(t)]) THEN RStrip(SubSeq(t, 1, Len(t) - 1)) ELSE t

\* t.strip()
Strip(t) == RStrip(LStrip(t))

\* bool(t): a Python string is truthy iff it is not empty
Truthy(t) == TLen(t) > 0

Dots == Txt("...", 3)
Space == Ws(1)

\* ' '.join(parts)
RECURSIVE Join(_)
Join(parts) ==
    IF parts = <<>> THEN <<>>
    ELSE IF Len(parts) = 1 THEN parts[1]
    ELSE parts[1] \o Space \o Join(Tail(parts))

\* t.split('\n'): cur is the line being collected
RECURSIVE SplitLines(_, _)
SplitLines(t, cur) ==
    IF t = <<>> THEN <<cur>>
    ELSE IF Head(t).k = "nl"
         THEN <<cur>> \o [i \in 1..(Head(t).n - 1) |-> <<>>] \o SplitLines(Tail(t), <<>>)
         ELSE SplitLines(Tail(t), Append(cur, Head(t)))

\* [f(x) for x in s if f(x)] with f = strip
RECURSIVE StrippedNonEmpty(_)
StrippedNonEmpty(ls) ==
    IF ls = <<>> THEN <<>>
    ELSE (IF Truthy(Strip(Head(ls))) THEN <<Strip(Head(ls))>> ELSE <<>>)
         \o StrippedNonEmpty(Tail(ls))

\* lines 138-139: lines = [line.strip() for line in content.split('\n')
\*                         if line.strip()]; content = ' '.join(lines)
CleanUp(content) == Join(StrippedNonEmpty(SplitLines(content, <<>>)))

(***************************************************************************)
(* ContentExtractor: SummarizerWorkflow._extract_content                   *)
(***************************************************************************)
None == "None"
\* None where the alternative is a record
Null == [null |-> TRUE]
MaxContentLen == 100000
MinContentLen == 100

Untitled == Txt("Untitled Article", 16)

\* What the outside world answers for a URL at fetch time.
\*   np_raises / np_text / np_title : newspaper Article download+parse
\*   get_raises                     : requests.get / raise_for_status
\*   sel[i]                         : soup.select_one(selector i) and its text
\*   paras                          : p.get_text(strip=True) of every <p>
\*   whole                          : soup.get_text(strip=True, separator=' ')
\*   title_tag, og_title            : <title> and <meta property="og:title">
Absent == [present |-> FALSE, text |-> Empty]
Elem(t) == [present |-> TRUE, text |-> t]
Selectors == <<"article", "main", ".content", ".post-content", ".entry-content",
               ".article-body">>
NoSel == [i \in 1..Len(Selectors) |-> Absent]

BasePage ==
    [np_raises |-> FALSE, np_text |-> Empty, np_title |-> Empty,
     get_raises |-> FALSE, sel |-> NoSel, paras |-> <<>>, whole |-> Empty,
     title_tag |-> Absent, og_title |-> Absent]

PrimaryPage(text, title) == [BasePage EXCEPT !.np_text = text, !.np_title = title]

Pages ==
    { \* primary tier succeeds
      PrimaryPage(Txt("A", MinContentLen + 50), Txt("TA", 10)),
      PrimaryPage(Txt("B", MinContentLen), Empty),
      PrimaryPage(Txt("C", MinContentLen - 1), Txt("TC", 10)),
      PrimaryPage(Ws(5) \o Txt("D", MinContentLen - 1) \o Nl(2), Txt("TD", 10)),
      PrimaryPage(Ws(1) \o Txt("E", MinContentLen), Txt("TE", 10)),
      PrimaryPage(Txt("F", MaxContentLen + 1), Txt("TF", 10)),
      PrimaryPage(Txt("G", MaxContentLen), Txt("TG", 10)),
      PrimaryPage(Ws(MaxContentLen) \o Txt("H", 50), Txt("TH", 10)),
      \* primary tier raises
      [BasePage EXCEPT !.np_raises = TRUE],
      [BasePage EXCEPT !.np_raises = TRUE, !.whole = Txt("W", 400),
                       !.title_tag = Elem(Txt("TT", 8))],
      \* primary tier empty, the HTTP GET fails
      [BasePage EXCEPT !.get_raises = TRUE],
      \* primary tier empty, secondary tier parses the page
      [BasePage EXCEPT !.sel = [NoSel EXCEPT ![2] = Elem(Txt("M", 200))],
                       !.paras = <<Txt("P1", 80), Txt("P2", 80)>>,
                       !.whole = Txt("W", 400),
                       !.title_tag = Elem(Ws(1) \o Txt("TT", 8) \o Nl(1))],
      [BasePage EXCEPT !.sel = [NoSel EXCEPT ![1] = Elem(Empty),
                                             ![3] = Elem(Txt("K", 300))],
                       !.paras = <<Txt("P1", 80), Empty, Txt("P2", 80)>>,
                       !.whole = Txt("W", 400),
                       !.title_tag = Elem(Txt("TT", 8)),
                       !.og_title = Elem(Txt("OG", 9))],
      [BasePage EXCEPT !.sel = [NoSel EXCEPT ![6] = Elem(Txt("L1", 60) \o Nl(1)
                                              \o Ws(2) \o Nl(1) \o Txt("L2", 60))],
                       !.whole = Txt("W", 400),
                       !.og_title = Elem(Empty)],
      [BasePage EXCEPT !.paras = <<Txt("P1", 40), Txt("P2", 40)>>,
                       !.whole = Txt("W", 400)],
      [BasePage EXCEPT !.whole = Txt("W", MinContentLen - 1)],
      [BasePage EXCEPT !.whole = Txt("W", 400), !.title_tag = Elem(Empty)],
      BasePage }

\* lines 122-127: the first selector that matches an element decides (break)
RECURSIVE SelectContent(_, _)
SelectContent(sel, i) ==
    IF i > Len(sel) THEN Empty
    ELSE IF sel[i].present THEN sel[i].text
    ELSE SelectContent(sel, i + 1)

\* line 132
ParagraphText(paras) == Join(SelectSeq(paras, Truthy))

\* lines 121-139
SecondaryContent(page) ==
    LET c1 == SelectContent(page.sel, 1)
        c2 == IF ~Truthy(c1) THEN ParagraphText(page.paras) ELSE c1
        c3 == IF ~Truthy(c2) THEN page.whole ELSE c2
    IN  CleanUp(c3)

\* lines 141-147
SecondaryTitle(page) ==
    LET t == IF page.title_tag.present THEN Strip(page.title_tag.text) ELSE Untitled
    IN  IF page.og_title.present /\ Truthy(page.og_title.text)
        THEN page.og_title.text ELSE t

\* lines 152-154
Truncate(content) ==
    IF TLen(content) > MaxContentLen THEN Slice(content, MaxContentLen) \o Dots
    ELSE content

\* the validation without the strip
TooShortUnstripped(content) == TLen(content) < MinContentLen

\* line 157
TooShort(content) == TLen(Strip(content)) < MinContentLen

ExtractionFailed(detail) == <<"Content extraction failed: ", detail>>
NoError == <<>>

\* lines 103-113: a download, parse or HTTP call raises
FetchRaises(page) == page.np_raises \/ (~Truthy(page.np_text) /\ page.get_raises)

\* lines 107-154: the text extracted when no call raises
FinalContent(page) ==
    Truncate(IF ~Truthy(page.np_text) THEN SecondaryContent(page) ELSE page.np_text)

\* _extract_content as a function of the state and of what the world answers
ExtractContent(state, page) ==
    IF page.np_raises THEN [state EXCEPT !.error = ExtractionFailed("ArticleException")]
    ELSE IF FetchRaises(page)
    THEN [state EXCEPT !.error = ExtractionFailed("RequestException")]
    ELSE
      LET secondary == ~Truthy(page.np_text)
          title == IF secondary THEN SecondaryTitle(page)
                   ELSE IF Truthy(page.np_title) THEN page.np_title ELSE Untitled
          content == FinalContent(page)
      IN  IF TooShort(content)
          THEN [state EXCEPT !.error = ExtractionFailed(
                   "Article content too short or extraction failed")]
          ELSE [state EXCEPT !.title = title, !.content = content]

(***************************************************************************)
(* SummaryGenerator: SummarizerWorkflow._generate_summary                  *)
(***************************************************************************)
\* a lookup whose default is the first template
SummaryPromptFirst(summary_type) ==
    CASE summary_type = "comprehensive" ->
           "Provide a comprehensive summary that covers all major points and key insights."
      [] summary_type = "detailed" ->
           "Provide a detailed summary with in-depth analysis and context."
      [] OTHER ->
           "Provide a brief 2-3 sentence summary of the main points."

\* lines 182-188: summary_prompts.get(summary_type, summary_prompts["comprehensive"])
SummaryPrompt(summary_type) ==
    CASE summary_type = "brief" ->
           "Provide a brief 2-3 sentence summary of the main points."
      [] summary_type = "detailed" ->
           "Provide a detailed summary with in-depth analysis and context."
      [] OTHER ->
           "Provide a comprehensive summary that covers all major points and key insights."

SummaryFailed(detail) == <<"Summary generation failed: ", detail>>

\* What the generation backend answers: it raises, or returns response.content
\* (a string), or response.content that is a list of content blocks
Raises == [raises |-> TRUE, is_str |-> TRUE, content |-> <<>>]
Answers(c) == [raises |-> FALSE, is_str |-> TRUE, content |-> c]
Blocks == [raises |-> FALSE, is_str |-> FALSE, content |-> <<>>]

SummaryAnswers ==
    { Raises, Answers(Txt("S1", 120)), Answers(Txt("S2", 1500)), Answers(Empty) }

\* _generate_summary after the error check, given the backend's answer
GenerateSummary(state, answer) ==
    IF answer.raises THEN [state EXCEPT !.error = SummaryFailed("BedrockError")]
    ELSE [state EXCEPT !.summary = answer.content]

SummaryRequest(state) ==
    [stage |-> "generate_summary", prompt |-> SummaryPrompt(state.summary_type),
     title |-> state.title, content |-> state.content]

\* one await of bedrock_llm.ainvoke: the messages sent and what came back
Exchange(request, answer) ==
    [stage |-> request.stage, prompt |-> request.prompt, title |-> request.title,
     content |-> request.content, response |-> answer]

(***************************************************************************)
(* KeyPointExtractor: SummarizerWorkflow._extract_key_points               *)
(* The backend's answer is a string: a sequence of one-character strings.  *)
(***************************************************************************)
NL == "\n"
QUOTE == "\""
BULLET == "U+2022"       \* the bullet character
ACIRC == "U+00E2"        \* the three characters the source's lstrip argument
EURO == "U+20AC"         \* holds between the blank and the asterisk
CENT == "U+00A2"

WhiteChars == {" ", NL}
Digits == {"1", "2"}

\* s.strip() on a character sequence
RECURSIVE LStripChars(_, _)
LStripChars(s, chars) ==
    IF s # <<>> /\ Head(s) \in chars THEN LStripChars(Tail(s), chars) ELSE s

RECURSIVE RStripChars(_, _)
RStripChars(s, chars) ==
    IF s # <<>> /\ s[Len(s)] \in chars
    THEN RStripChars(SubSeq(s, 1, Len(s) - 1), chars) ELSE s

StripChars(s) == RStripChars(LStripChars(s, WhiteChars), WhiteChars)

\* s.split('\n')
RECURSIVE SplitNl(_, _)
SplitNl(s, cur) ==
    IF s = <<>> THEN <<cur>>
    ELSE IF Head(s) = NL THEN <<cur>> \o SplitNl(Tail(s), <<>>)
    ELSE SplitNl(Tail(s), Append(cur, Head(s)))

StartsWith(s, c) == s # <<>> /\ Head(s) = c
EndsWith(s, c) == s # <<>> /\ s[Len(s)] = c

\* json.loads over the alphabet of the answers: arrays, strings without
\* escapes, integers; blanks and newlines are insignificant between tokens.
JStr(chars) == [t |-> "str", v |-> chars]
JNum(chars) == [t |-> "num", v |-> chars]
JList(elems) == [t |-> "list", v |-> elems]
POk(val, next) == [ok |-> TRUE, val |-> val, next |-> next]
PFail == [ok |-> FALSE, val |-> JStr(<<>>), next |-> 0]

RECURSIVE SkipWs(_, _)
SkipWs(s, i) == IF i <= Len(s) /\ s[i] \in WhiteChars THEN SkipWs(s, i + 1) ELSE i

\* i is just past the opening quote
RECURSIVE ParseString(_, _, _)
ParseString(s, i, acc) ==
    IF i > Len(s) \/ s[i] = NL THEN PFail
    ELSE IF s[i] = QUOTE THEN POk(JStr(acc), i + 1)
    ELSE ParseString(s, i + 1, Append(acc, s[i]))

RECURSIVE ParseDigits(_, _, _)
ParseDigits(s, i, acc) ==
    IF i <= Len(s) /\ s[i] \in Digits THEN ParseDigits(s, i + 1, Append(acc, s[i]))
    ELSE IF acc = <<>> \/ acc = <<"-">> THEN PFail
    ELSE POk(JNum(acc), i)

RECURSIVE ParseValue(_, _)
RECURSIVE ParseElems(_, _, _)
ParseValue(s, i) ==
    LET j == SkipWs(s, i) IN
    IF j > Len(s) THEN PFail
    ELSE IF s[j] = QUOTE THEN ParseString(s, j + 1, <<>>)
    ELSE IF s[j] = "-" THEN ParseDigits(s, j + 1, <<"-">>)
    ELSE IF s[j] \in Digits THEN ParseDigits(s, j, <<>>)
    ELSE IF s[j] = "["
         THEN LET k == SkipWs(s, j + 1) IN
              IF k <= Len(s) /\ s[k] = "]" THEN POk(JList(<<>>), k + 1)
              ELSE ParseElems(s, j + 1, <<>>)
    ELSE PFail

ParseElems(s, i, acc) ==
    LET r == ParseValue(s, i) IN
    IF ~r.ok THEN PFail
    ELSE LET k == SkipWs(s, r.next) IN
         IF k > Len(s) THEN PFail
         ELSE IF s[k] = "," THEN ParseElems(s, k + 1, Append(acc, r.val))
         ELSE IF s[k] = "]" THEN POk(JList(Append(acc, r.val)), k + 1)
         ELSE PFail

\* json.loads(s): ok is FALSE where json.loads raises
JsonLoads(s) ==
    LET r == ParseValue(s, 1) IN
    IF r.ok /\ SkipWs(s, r.next) > Len(s) THEN r ELSE PFail

\* lines 237-241: the strict path succeeds iff the answer is a JSON list
IsJsonList(s) == JsonLoads(s).ok /\ JsonLoads(s).val.t = "list"

\* line 250: line.lstrip('- <U+00E2><U+20AC><U+00A2>*')
BulletChars == {"-", " ", ACIRC, EURO, CENT, "*"}

\* lines 247-254: one line of the fallback; <<>> when the line is dropped
CleanLine(raw) ==
    LET line == StripChars(raw) IN
    IF line # <<>> /\ ~StartsWith(line, "[") /\ ~StartsWith(line, "]")
    THEN LET l2 == StripChars(LStripChars(line, BulletChars))
             l3 == IF StartsWith(l2, QUOTE) /\ EndsWith(l2, QUOTE)
                   THEN SubSeq(l2, 2, Len(l2) - 1) ELSE l2
         IN  l3
    ELSE <<>>

RECURSIVE CleanLines(_)
CleanLines(lines) ==
    IF lines = <<>> THEN <<>>
    ELSE (IF CleanLine(Head(lines)) # <<>> THEN <<JStr(CleanLine(Head(lines)))>>
          ELSE <<>>) \o CleanLines(Tail(lines))

MaxKeyPoints == 7

\* lines 244-257: the line-splitting fallback; key_points[:7]
FallbackKeyPoints(s) ==
    LET points == CleanLines(SplitNl(StripChars(s), <<>>))
    IN  IF Len(points) <= MaxKeyPoints THEN points
        ELSE SubSeq(points, 1, MaxKeyPoints)

\* a parser that only splits lines
ParseKeyPointsByLines(s) == FallbackKeyPoints(s)

\* lines 236-257
ParseKeyPoints(s) ==
    IF IsJsonList(s) THEN JsonLoads(s).val.v ELSE FallbackKeyPoints(s)

\* a key-point stage whose failure is fatal to the run
ExtractKeyPointsFatal(state, answer) ==
    IF answer.raises \/ ~answer.is_str
    THEN [state EXCEPT !.error = <<"Key points extraction failed: ", "Error">>]
    ELSE [state EXCEPT !.key_points = ParseKeyPoints(answer.content)]

\* a key-point stage whose failure also discards the summary
ExtractKeyPointsDropsSummary(state, answer) ==
    IF answer.raises \/ ~answer.is_str
    THEN [state EXCEPT !.key_points = <<>>, !.summary = Empty]
    ELSE [state EXCEPT !.key_points = ParseKeyPoints(answer.content)]

\* _extract_key_points after the error check, given the backend's answer.
\* lines 264-269: ainvoke raising, or json.loads and then .strip() raising on
\* a content that is no string, end in key_points = []
ExtractKeyPoints(state, answer) ==
    IF answer.raises \/ ~answer.is_str THEN [state EXCEPT !.key_points = <<>>]
    ELSE [state EXCEPT !.key_points = ParseKeyPoints(answer.content)]

KeyPointsRequest(state) ==
    [stage |-> "extract_key_points", prompt |-> "Extract 3-7 key points",
     title |-> state.title, content |-> state.content]

\* The answers the backend gives to the key-point request.
MaxPoints == 8

Letter(i) == IF i % 2 = 1 THEN "a" ELSE "b"

RECURSIVE JsonArrayBody(_, _)
JsonArrayBody(i, n) ==
    IF i > n THEN <<>>
    ELSE <<QUOTE, Letter(i), QUOTE>>
         \o (IF i < n THEN <<",", " ">> ELSE <<>>) \o JsonArrayBody(i + 1, n)

\* ["a", "b", ...] with n strings
JsonArray(n) == <<"[">> \o JsonArrayBody(1, n) \o <<"]">>

\* "- a\n- b\n..." with n lines
RECURSIVE BulletList(_, _)
BulletList(i, n) ==
    IF i > n THEN <<>> ELSE <<"-", " ", Letter(i), NL>> \o BulletList(i + 1, n)

KeyPointTexts ==
    { JsonArray(n) : n \in 0..MaxPoints } \cup { BulletList(1, n) : n \in 0..MaxPoints }
    \cup
    { <<"-", " ", "a", " ", "b", NL, "-", " ", "b", " ", "a", NL, "[", "a", "]", NL>>,
      <<"[", "1", ",", " ", QUOTE, "a", QUOTE, ",", " ", "[", "2", "]", "]">>,
      <<"[", NL, " ", QUOTE, "a", QUOTE, ",", NL, " ", QUOTE, "b", QUOTE, NL, "]", NL>>,
      <<"a", NL, "[", NL, QUOTE, "a", QUOTE, ",", NL, QUOTE, "b", QUOTE, NL, "]">>,
      <<"[", QUOTE, "a", QUOTE, ",", "]">>,
      <<QUOTE, "a", QUOTE>>,
      <<"-", "1", "2">>,
      <<BULLET, " ", "a", NL, "*", " ", "b", NL, ACIRC, "a">>,
      <<" ", NL, " ">> }

KeyPointAnswers == { Raises, Blocks } \cup { Answers(t) : t \in KeyPointTexts }

(***************************************************************************)
(* SummarizationPipeline: SummarizerWorkflow.run and the compiled graph    *)
(***************************************************************************)
RunIds == {1, 2}
Urls == {"u1", "u2"}
SummaryTypes == {"brief", "comprehensive", "detailed", "bogus"}

IdleState ==
    [url |-> "", summary_type |-> "comprehensive", title |-> Empty, content |-> Empty,
     summary |-> Empty, key_points |-> <<>>, error |-> NoError]

\* lines 69-77
InitialState(url, summary_type) ==
    [url |-> url, summary_type |-> summary_type, title |-> Empty, content |-> Empty,
     summary |-> Empty, key_points |-> <<>>, error |-> NoError]

NoReturn == [kind |-> "none"]

WorkflowInit(liveRuns) ==
    /\ wpc = [r \in RunIds |-> IF r \in liveRuns THEN "idle" ELSE "off"]
    /\ wstate = [r \in RunIds |-> IdleState]
    /\ wret = [r \in RunIds |-> NoReturn]
    /\ llmCalls = [r \in RunIds |-> <<>>]
    /\ wpage = [r \in RunIds |-> Null]

\* lines 57-59: the edges of the graph; line 62: its entry point
EntryPoint == "extract_content"

\* a graph whose two generation nodes are wired the other way round
NextNodeSwapped(node) ==
    CASE node = "extract_content" -> "extract_key_points"
      [] node = "extract_key_points" -> "generate_summary"
      [] node = "generate_summary" -> "END"

NextNode(node) ==
    CASE node = "extract_content" -> "generate_summary"
      [] node = "generate_summary" -> "extract_key_points"
      [] node = "extract_key_points" -> "END"

\* run(url, summary_type) up to the first node of the graph (entry point)
StartRun(r, url, summary_type) ==
    /\ wpc[r] = "idle"
    /\ wpc' = [wpc EXCEPT ![r] = EntryPoint]
    /\ wstate' = [wstate EXCEPT ![r] = InitialState(url, summary_type)]
    /\ wret' = [wret EXCEPT ![r] = NoReturn]
    /\ llmCalls' = [llmCalls EXCEPT ![r] = <<>>]
    /\ wpage' = [wpage EXCEPT ![r] = Null]

\* a workflow that keeps one state object for all its runs
RunStateShared(r) == wstate[1]

\* lines 69-80: the state a node of run r receives is the dict that run built
RunState(r) == wstate[r]

\* node extract_content, edge to generate_summary
ExtractContentNode(r) ==
    /\ wpc[r] = "extract_content"
    /\ \E page \in env.pages :
           /\ wstate' = [wstate EXCEPT ![r] = ExtractContent(RunState(r), page)]
           /\ wpage' = [wpage EXCEPT ![r] = page]
    /\ wpc' = [wpc EXCEPT ![r] = NextNode("extract_content")]
    /\ UNCHANGED <<wret, llmCalls>>

\* a summary node without the check of lines 175-176
GenerateSummaryNodeUnguarded(r) ==
    /\ wpc[r] = "generate_summary"
    /\ \E answer \in env.summaries :
          /\ llmCalls' = [llmCalls EXCEPT ![r] =
                            Append(@, Exchange(SummaryRequest(RunState(r)), answer))]
          /\ wstate' = [wstate EXCEPT ![r] = GenerateSummary(RunState(r), answer)]
    /\ wpc' = [wpc EXCEPT ![r] = NextNode("generate_summary")]
    /\ UNCHANGED <<wret, wpage>>

\* node generate_summary, edge to extract_key_points
GenerateSummaryNode(r) ==
    /\ wpc[r] = "generate_summary"
    /\ IF RunState(r).error # NoError
       THEN UNCHANGED <<wstate, llmCalls>>
       ELSE \E answer \in env.summaries :
              /\ llmCalls' = [llmCalls EXCEPT ![r] =
                                Append(@, Exchange(SummaryRequest(RunState(r)), answer))]
              /\ wstate' = [wstate EXCEPT ![r] = GenerateSummary(RunState(r), answer)]
    /\ wpc' = [wpc EXCEPT ![r] = NextNode("generate_summary")]
    /\ UNCHANGED <<wret, wpage>>

\* node extract_key_points, edge to END
ExtractKeyPointsNode(r) ==
    /\ wpc[r] = "extract_key_points"
    /\ IF RunState(r).error # NoError
       THEN UNCHANGED <<wstate, llmCalls>>
       ELSE \E answer \in env.keypoints :
              /\ llmCalls' = [llmCalls EXCEPT ![r] =
                                Append(@, Exchange(KeyPointsRequest(RunState(r)), answer))]
              /\ wstate' = [wstate EXCEPT ![r] = ExtractKeyPoints(RunState(r), answer)]
    /\ wpc' = [wpc EXCEPT ![r] = NextNode("extract_key_points")]
    /\ UNCHANGED <<wret, wpage>>

\* a run that hands over whatever the state holds, failed or not
RunResultPartial(state) ==
    [kind |-> "return", title |-> state.title, content |-> state.content,
     summary |-> state.summary, key_points |-> state.key_points]

\* lines 82-90: what run hands to its caller
RunResult(state) ==
    IF state.error # NoError THEN [kind |-> "raise", error |-> state.error]
    ELSE [kind |-> "return", title |-> state.title, content |-> state.content,
          summary |-> state.summary, key_points |-> state.key_points]

RunReturn(r) ==
    /\ wpc[r] = "END"
    /\ wret' = [wret EXCEPT ![r] = RunResult(wstate[r])]
    /\ wpc' = [wpc EXCEPT ![r] = IF wstate[r].error # NoError THEN "raised" ELSE "returned"]
    /\ UNCHANGED <<wstate, llmCalls, wpage>>

(***************************************************************************)
(* EmbeddingIndex: RAGService                                              *)
(***************************************************************************)
MaxRetries == 3
DocContentLen == 5000
MetaSummaryLen == 1000
ExcerptLen == 200
RoundDigits == 3
DefaultLimit == 5
\* similarity_threshold: float = 0.3, in units of 1/Scale
DefaultThreshold == 3000

RECURSIVE Pow(_, _)
Pow(b, e) == IF e = 0 THEN 1 ELSE b * Pow(b, e - 1)

\* Distances and similarities are fixed-point numbers with one digit more
\* than round(similarity_score, 3) keeps.
Scale == Pow(10, RoundDigits + 1)

\* line 42: asyncio.sleep(2 ** attempt)
BackoffDelay(a) == Pow(2, a)

\* one attempt too many
ProbeNextOffByOne(ok, a) ==
    IF ok THEN "setup"
    ELSE IF a < MaxRetries THEN "backoff"
    ELSE "failed"

\* no break after a successful heartbeat
ProbeNextNoBreak(ok, a) ==
    IF a < MaxRetries - 1 THEN "backoff"
    ELSE IF ok THEN "setup"
    ELSE "failed"

\* lines 37-44: where the retry loop goes after one attempt
ProbeNext(ok, a) ==
    IF ok THEN "setup"
    ELSE IF a < MaxRetries - 1 THEN "backoff"
    ELSE "failed"

IndexInit ==
    /\ client = None
    /\ collection = None
    /\ embedding_model = None
    /\ ipc = "new"
    /\ attempt = 0
    /\ probes = <<>>
    /\ sleeps = <<>>

\* lines 24-27: entering initialize and its retry loop
BeginInitialize ==
    /\ ipc = "new"
    /\ ipc' = "connect"
    /\ attempt' = 0
    /\ UNCHANGED <<client, collection, embedding_model, probes, sleeps>>

\* lines 28-44: one connection attempt: construct the client, probe it.
\* how = "ctor": HttpClient(...) raises; "probe": heartbeat() raises; "ok"
ConnectAttempt ==
    /\ ipc = "connect"
    /\ \E how \in {"ctor", "probe", "ok"} :
        /\ client' = IF how = "ctor" THEN client ELSE "client"
        /\ probes' = Append(probes, IF how = "ok" THEN "ok" ELSE "fail")
        /\ LET next == ProbeNext(how = "ok", attempt) IN
           IF next = "failed"
           THEN \* raise e, caught at line 57
                /\ ipc' = "except"
           ELSE /\ ipc' = next
    /\ UNCHANGED <<collection, embedding_model, attempt, sleeps>>

\* lines 39-42: await asyncio.sleep(2 ** attempt), then the next iteration
Backoff ==
    /\ ipc = "backoff"
    /\ sleeps' = Append(sleeps, BackoffDelay(attempt))
    /\ attempt' = attempt + 1
    /\ ipc' = "connect"
    /\ UNCHANGED <<client, collection, embedding_model, probes>>

\* lines 46-55: get_or_create_collection, SentenceTransformer(...)
Setup ==
    /\ ipc = "setup"
    /\ \E how \in {"collection", "model", "ok"} :
        /\ collection' = IF how = "collection" THEN collection ELSE "collection"
        /\ embedding_model' = IF how = "ok" THEN "model" ELSE embedding_model
        /\ ipc' = IF how = "ok" THEN "done" ELSE "except"
    /\ UNCHANGED <<client, attempt, probes, sleeps>>

\* a handler that forgets to reset the client
OnInitializeErrorKeepsClient ==
    [client |-> client, collection |-> None, embedding_model |-> None, ipc |-> "done"]

\* lines 57-62: the handler of initialize's outer try: the handles are
\* reset and the error is not raised again
OnInitializeError ==
    [client |-> None, collection |-> None, embedding_model |-> None, ipc |-> "done"]

InitializeExcept ==
    /\ ipc = "except"
    /\ client' = OnInitializeError.client
    /\ collection' = OnInitializeError.collection
    /\ embedding_model' = OnInitializeError.embedding_model
    /\ ipc' = OnInitializeError.ipc
    /\ UNCHANGED <<attempt, probes, sleeps>>

Enabled == client # None /\ collection # None /\ embedding_model # None
Disabled == client = None /\ collection = None /\ embedding_model = None

\* ---- the calls on an initialized (or disabled) service -------------------

\* dict.get(key, default)
MetaGet(m, key, default) == IF key \in DOMAIN m THEN m[key] ELSE default

\* line 80: doc_id = f"article_{article_id}"
DocId(article_id) == <<"article_", article_id>>

\* line 74
DocumentText(content, summary, metadata) ==
    Txt("Title: ", 7) \o MetaGet(metadata, "title", Txt("Untitled", 8)) \o Nl(2)
    \o Txt("Summary: ", 9) \o summary \o Nl(2)
    \o Txt("Content: ", 9) \o Slice(content, DocContentLen)

\* line 77: the embedding is a function of the text embedded
Embed(text) == <<"embedding", text>>

\* lines 85-91
StoredMetadata(article_id, summary, metadata) ==
    [article_id |-> article_id,
     title |-> MetaGet(metadata, "title", Empty),
     url |-> MetaGet(metadata, "url", ""),
     summary_type |-> MetaGet(metadata, "summary_type", ""),
     summary |-> Slice(summary, MetaSummaryLen)]

\* lines 82-93: the record handed to collection.add
NewDocument(article_id, content, summary, metadata) ==
    [id |-> DocId(article_id),
     document |-> DocumentText(content, summary, metadata),
     embedding |-> Embed(DocumentText(content, summary, metadata)),
     metadata |-> StoredMetadata(article_id, summary, metadata)]

\* The collection is the sequence of its records, oldest first.
HasId(st, id) == \E i \in 1..Len(st) : st[i].id = id
WithId(st, id) == SelectSeq(st, LAMBDA d : d.id = id)
StoredIds(st) == { st[i].id : i \in 1..Len(st) }

\* an add that never looks for the id
CollectionAddBlind(st, doc) == Append(st, doc)

\* collection.add(ids=[id], ...) of the vector store: a record whose id is
\* already in the collection is ignored, no error is raised
CollectionAdd(st, doc) == IF HasId(st, doc.id) THEN st ELSE Append(st, doc)

\* collection.delete(ids=[id])
CollectionDelete(st, id) == SelectSeq(st, LAMBDA d : d.id # id)

\* A call's outcome inside its try block, and what the except clause of the
\* method makes of it.
Return(v, st) == [kind |-> "return", value |-> v, store |-> st]
Raise(st) == [kind |-> "raise", value |-> None, store |-> st]

\* no except clause: the exception leaves the method
CatchNothing(outcome, fallback) == outcome

\* lines 98-100, 148-150, 174-176, 187-189, 201-203: except Exception: return X
Catch(outcome, fallback) ==
    IF outcome.kind = "raise" THEN Return(fallback, outcome.store) ELSE outcome

\* A backend call fails when its handle is None (AttributeError) or when the
\* backend itself fails (fault).
EncodeRaises(fault) == embedding_model = None \/ fault = "encode"
StoreRaises(fault) == collection = None \/ fault = "store"
Faults == {"none", "encode", "store"}

\* add_article without its try/except
add_article_unguarded(article_id, content, summary, metadata, fault) ==
    IF EncodeRaises(fault) \/ StoreRaises(fault) THEN Raise(store)
    ELSE Return(TRUE, CollectionAdd(store,
                    NewDocument(article_id, content, summary, metadata)))

\* lines 72-100
add_article(article_id, content, summary, metadata, fault) ==
    Catch(IF EncodeRaises(fault) \/ StoreRaises(fault) THEN Raise(store)
          ELSE Return(TRUE, CollectionAdd(store,
                                NewDocument(article_id, content, summary, metadata))),
          FALSE)

\* line 139: round(similarity_score, 3), ties to even
Round3(x) ==
    LET q == x \div 10
        r == x % 10
    IN  IF r < 5 THEN q * 10
        ELSE IF r > 5 THEN (q + 1) * 10
        ELSE IF q % 2 = 0 THEN q * 10 ELSE (q + 1) * 10

\* the distance taken for the similarity
SimilarityIsDistance(distance) == distance

\* line 129
Similarity(distance) == Scale - distance

\* the threshold itself excluded
KeepStrict(similarity_score, similarity_threshold) ==
    similarity_score > similarity_threshold

\* line 131
Keep(similarity_score, similarity_threshold) == similarity_score >= similarity_threshold

\* lines 132-143: one search result
SearchResult(nb) ==
    [article_id |-> MetaGet(nb.metadata, "article_id", None),
     title |-> MetaGet(nb.metadata, "title", Txt("Untitled", 8)),
     url |-> MetaGet(nb.metadata, "url", ""),
     summary_excerpt |-> Slice(MetaGet(nb.metadata, "summary", Empty), ExcerptLen) \o Dots,
     similarity_score |-> Round3(Similarity(nb.distance)),
     metadata |-> [summary_type |-> MetaGet(nb.metadata, "summary_type", "")]]

\* lines 124-143: neighbours in the store's order, filtered
RECURSIVE ProcessResults(_, _)
ProcessResults(nbs, threshold) ==
    IF nbs = <<>> THEN <<>>
    ELSE (IF Keep(Similarity(Head(nbs).distance), threshold)
          THEN <<SearchResult(Head(nbs))>> ELSE <<>>)
         \o ProcessResults(Tail(nbs), threshold)

\* lines 109-150; nbs is what collection.query returned
search(nbs, threshold, fault) ==
    Catch(IF collection = None \/ EncodeRaises(fault) \/ StoreRaises(fault)
          THEN Raise(store)
          ELSE Return(ProcessResults(nbs, threshold), store),
          <<>>)

\* lines 154-176
get_article_by_id(article_id, fault) ==
    Catch(IF StoreRaises(fault) THEN Raise(store)
          ELSE IF HasId(store, DocId(article_id))
          THEN LET d == WithId(store, DocId(article_id))[1] IN
               Return([article_id |-> d.metadata.article_id,
                       title |-> d.metadata.title,
                       url |-> d.metadata.url,
                       document |-> d.document,
                       metadata |-> d.metadata], store)
          ELSE Return(Null, store),
          Null)

\* lines 180-189
delete_article(article_id, fault) ==
    Catch(IF StoreRaises(fault) THEN Raise(store)
          ELSE Return(TRUE, CollectionDelete(store, DocId(article_id))),
          FALSE)

\* lines 193-203
get_collection_stats(fault) ==
    Catch(IF StoreRaises(fault) THEN Raise(store)
          ELSE Return([total_articles |-> Len(store),
                       collection_name |-> "articles"], store),
          [total_articles |-> 0, collection_name |-> "articles"])

\* ---- callers of the service ---------------------------------------------
MaxArticleId == 2
ArticleIds == 1..MaxArticleId

\* what a caller passes to add_article: content, summary, metadata
ArticleInputs ==
    { [content |-> Txt("A", 150), summary |-> Txt("S1", 120),
       metadata |-> [title |-> Txt("TA", 10), url |-> "u1", summary_type |-> "brief"]],
      [content |-> Txt("F", MaxContentLen) \o Dots, summary |-> Txt("S2", 1500),
       metadata |-> [url |-> "u2"]] }

\* distances the store reports, in units of 1/Scale: 0.2, 0.6996, 0.7,
\* 0.7001 and 1.2
Distances == {2000, 6996, 7000, 7001, 12000}
Limits == {1, DefaultLimit}
Thresholds == {DefaultThreshold, 5000}

Min(a, b) == IF a < b THEN a ELSE b

\* collection.query(n_results=n): the n nearest documents, nearest first
NeighbourLists(st, n) ==
    { [i \in 1..n |-> [id |-> st[c[i][1]].id, distance |-> c[i][2],
                       document |-> st[c[i][1]].document,
                       metadata |-> st[c[i][1]].metadata]] :
        c \in { c \in [1..n -> (1..Len(st)) \X Distances] :
                  /\ \A i, j \in 1..n : i # j => c[i][1] # c[j][1]
                  /\ \A i \in 1..(n - 1) : c[i][2] <= c[i + 1][2] } }

NoCall == [op |-> "none"]

StoreInit ==
    /\ store = <<>>
    /\ last = NoCall

AddArticle(article_id, a, fault) ==
    /\ ipc = "done"
    /\ last = NoCall
    /\ LET out == add_article(article_id, a.content, a.summary, a.metadata, fault) IN
       /\ store' = out.store
       /\ last' = [op |-> "add", id |-> article_id, input |-> a, fault |-> fault,
                   before |-> store, kind |-> out.kind, ret |-> out.value]
    /\ UNCHANGED ivars

\* collection.query is reached only when nothing before it raised
QueryReached(fault) == collection # None /\ ~EncodeRaises(fault)

Search(limit, threshold, fault) ==
    /\ ipc = "done"
    /\ last = NoCall
    /\ \E nbs \in IF QueryReached(fault) /\ ~StoreRaises(fault)
                  THEN NeighbourLists(store, Min(limit, Len(store)))
                  ELSE {<<>>} :
        LET out == search(nbs, threshold, fault) IN
        /\ store' = out.store
        /\ last' = [op |-> "search", limit |-> limit, threshold |-> threshold,
                    fault |-> fault, nbs |-> nbs, kind |-> out.kind, ret |-> out.value]
    /\ UNCHANGED ivars

GetArticleById(article_id, fault) ==
    /\ ipc = "done"
    /\ last = NoCall
    /\ LET out == get_article_by_id(article_id, fault) IN
       /\ store' = out.store
       /\ last' = [op |-> "get", id |-> article_id, fault |-> fault,
                   kind |-> out.kind, ret |-> out.value]
    /\ UNCHANGED ivars

DeleteArticle(article_id, fault) ==
    /\ ipc = "done"
    /\ last = NoCall
    /\ LET out == delete_article(article_id, fault) IN
       /\ store' = out.store
       /\ last' = [op |-> "delete", id |-> article_id, fault |-> fault,
                   before |-> store, kind |-> out.kind, ret |-> out.value]
    /\ UNCHANGED ivars

GetCollectionStats(fault) ==
    /\ ipc = "done"
    /\ last = NoCall
    /\ LET out == get_collection_stats(fault) IN
       /\ store' = out.store
       /\ last' = [op |-> "stats", fault |-> fault,
                   kind |-> out.kind, ret |-> out.value]
    /\ UNCHANGED ivars

\* the caller takes the result; only then does it make its next call
CallReturns ==
    /\ last # NoCall
    /\ last' = NoCall
    /\ UNCHANGED <<store, ivars>>

(***************************************************************************)
(* HTTP layer: main.create_article and main.search_articles                *)
(***************************************************************************)
\* article_data.summary_type or "comprehensive"
OrComprehensive(summary_type) ==
    IF summary_type = None \/ summary_type = "" THEN "comprehensive" ELSE summary_type

ApiSummaryTypes == {None, "brief", "bogus"}

NoRequest == [url |-> "", summary_type |-> None]
NoLocal == [article |-> Null, summary |-> Null]
NoResponse == [status |-> 0]

ApiInit ==
    /\ apc = [r \in RunIds |-> "idle"]
    /\ areq = [r \in RunIds |-> NoRequest]
    /\ alocal = [r \in RunIds |-> NoLocal]
    /\ aresp = [r \in RunIds |-> NoResponse]
    /\ db_articles = <<>>
    /\ db_summaries = <<>>

\* lines 179-182: except Exception: db.rollback(); raise HTTPException(500)
\* (rollback discards nothing that was committed)
Http500 == [status |-> 500]

\* schemas.SummaryResponse.key_points: List[str]
ValidKeyPoints(kps) == \A i \in 1..Len(kps) : kps[i].t = "str"

\* lines 164-177
ArticleResponse(article, summary) ==
    IF ValidKeyPoints(summary.key_points)
    THEN [status |-> 200, id |-> article.id, url |-> article.url,
          title |-> article.title, summary_type |-> article.summary_type,
          summary |-> [id |-> summary.id, summary_text |-> summary.summary_text,
                       key_points |-> summary.key_points,
                       summary_type |-> summary.summary_type]]
    ELSE Http500

\* lines 115-125: the request enters the handler and awaits the workflow
CreateArticle(r, url, summary_type) ==
    /\ ipc = "done"
    /\ apc[r] = "idle"
    /\ last = NoCall
    /\ Len(db_articles) < MaxArticleId
    /\ StartRun(r, url, OrComprehensive(summary_type))
    /\ apc' = [apc EXCEPT ![r] = "run"]
    /\ areq' = [areq EXCEPT ![r] = [url |-> url, summary_type |-> summary_type]]
    /\ UNCHANGED <<alocal, aresp, db_articles, db_summaries>>

\* lines 122, 179-182: run raised
PipelineFailed(r) ==
    /\ apc[r] = "run"
    /\ wpc[r] = "raised"
    /\ apc' = [apc EXCEPT ![r] = "done"]
    /\ aresp' = [aresp EXCEPT ![r] = [Http500 EXCEPT !.status = 500]]
    /\ UNCHANGED <<areq, alocal, db_articles, db_summaries>>

\* models.Article.url: unique=True
UrlTaken(url) == \E i \in 1..Len(db_articles) : db_articles[i].url = url

\* lines 127-137: the article row; ok is FALSE where db.commit() raises
PersistArticle(r) ==
    /\ apc[r] = "run"
    /\ wpc[r] = "returned"
    /\ \E ok \in BOOLEAN :
        IF ok /\ ~UrlTaken(areq[r].url)
        THEN LET article == [id |-> Len(db_articles) + 1, url |-> areq[r].url,
                             title |-> wret[r].title, content |-> wret[r].content,
                             summary_type |-> OrComprehensive(areq[r].summary_type)]
             IN  /\ db_articles' = Append(db_articles, article)
                 /\ alocal' = [alocal EXCEPT ![r].article = article]
                 /\ apc' = [apc EXCEPT ![r] = "article_committed"]
                 /\ UNCHANGED aresp
        ELSE /\ apc' = [apc EXCEPT ![r] = "done"]
             /\ aresp' = [aresp EXCEPT ![r] = Http500]
             /\ UNCHANGED <<alocal, db_articles>>
    /\ UNCHANGED <<areq, db_summaries>>

\* lines 139-149: the summary row
PersistSummary(r) ==
    /\ apc[r] = "article_committed"
    /\ \E ok \in BOOLEAN :
        IF ok
        THEN LET summary == [id |-> Len(db_summaries) + 1,
                             article_id |-> alocal[r].article.id,
                             summary_text |-> wret[r].summary,
                             key_points |-> wret[r].key_points,
                             summary_type |-> OrComprehensive(areq[r].summary_type)]
             IN  /\ db_summaries' = Append(db_summaries, summary)
                 /\ alocal' = [alocal EXCEPT ![r].summary = summary]
                 /\ apc' = [apc EXCEPT ![r] = "summary_committed"]
                 /\ UNCHANGED aresp
        ELSE /\ apc' = [apc EXCEPT ![r] = "done"]
             /\ aresp' = [aresp EXCEPT ![r] = Http500]
             /\ UNCHANGED <<alocal, db_summaries>>
    /\ UNCHANGED <<areq, db_articles>>

\* lines 157-161
IndexMetadata(r) ==
    [title |-> wret[r].title, url |-> areq[r].url,
     summary_type |-> OrComprehensive(areq[r].summary_type)]

\* a handler that indexes as soon as the article row is committed
IndexEarly(r) ==
    /\ apc[r] = "article_committed"
    /\ \E fault \in Faults :
        LET out == add_article(alocal[r].article.id, wret[r].content,
                               wret[r].summary, IndexMetadata(r), fault)
        IN  /\ store' = out.store
            /\ last' = [op |-> "add", id |-> alocal[r].article.id,
                        input |-> [content |-> wret[r].content,
                                   summary |-> wret[r].summary,
                                   metadata |-> IndexMetadata(r)],
                        fault |-> fault, before |-> store,
                        kind |-> out.kind, ret |-> out.value]
    /\ apc' = [apc EXCEPT ![r] = "done"]
    /\ aresp' = [aresp EXCEPT ![r] = Http500]
    /\ UNCHANGED <<areq, alocal, db_articles, db_summaries>>

\* lines 151-177: index the article, then answer; an exception out of
\* add_article would reach the handler at line 179
IndexAndRespond(r) ==
    /\ apc[r] = "summary_committed"
    /\ \E fault \in Faults :
        LET out == add_article(alocal[r].article.id, wret[r].content,
                               wret[r].summary, IndexMetadata(r), fault)
        IN  /\ store' = out.store
            /\ last' = [op |-> "add", id |-> alocal[r].article.id,
                        input |-> [content |-> wret[r].content,
                                   summary |-> wret[r].summary,
                                   metadata |-> IndexMetadata(r)],
                        fault |-> fault, before |-> store,
                        kind |-> out.kind, ret |-> out.value]
            /\ aresp' = [aresp EXCEPT ![r] =
                           IF out.kind = "raise" THEN Http500
                           ELSE ArticleResponse(alocal[r].article, alocal[r].summary)]
    /\ apc' = [apc EXCEPT ![r] = "done"]
    /\ UNCHANGED <<areq, alocal, db_articles, db_summaries>>

\* the client has the response; the slot serves the next request
ResponseDelivered(r) ==
    /\ apc[r] = "done"
    /\ apc' = [apc EXCEPT ![r] = "idle"]
    /\ areq' = [areq EXCEPT ![r] = NoRequest]
    /\ alocal' = [alocal EXCEPT ![r] = NoLocal]
    /\ aresp' = [aresp EXCEPT ![r] = NoResponse]
    /\ wpc' = [wpc EXCEPT ![r] = "idle"]
    /\ wstate' = [wstate EXCEPT ![r] = IdleState]
    /\ wret' = [wret EXCEPT ![r] = NoReturn]
    /\ llmCalls' = [llmCalls EXCEPT ![r] = <<>>]
    /\ wpage' = [wpage EXCEPT ![r] = Null]
    /\ last' = NoCall
    /\ UNCHANGED <<db_articles, db_summaries>>

\* lines 264-281: POST /search/ with a non-empty query; default threshold.
\* Requests are served one at a time here: no create_article is in flight.
SearchArticles(limit, fault) ==
    /\ \A r \in RunIds : apc[r] = "idle"
    /\ Search(limit, DefaultThreshold, fault)

vars == <<wvars, ivars, svars, avars, env>>

(***************************************************************************)
(* Specifications                                                          *)
(***************************************************************************)
FullEnv == [pages |-> Pages, summaries |-> SummaryAnswers, keypoints |-> KeyPointAnswers]

\* the world the HTTP layer is exercised against
ApiEnv ==
    [pages |-> { PrimaryPage(Txt("A", MinContentLen + 50), Txt("TA", 10)),
                 PrimaryPage(Txt("C", MinContentLen - 1), Txt("TC", 10)) },
     summaries |-> { Raises, Answers(Txt("S2", 1500)) },
     keypoints |-> { Raises, Answers(JsonArray(2)),
                     Answers(<<"[", "1", ",", " ", QUOTE, "a", QUOTE, "]">>) }]

\* The pipeline alone: one caller of SummarizerWorkflow.run
Init ==
    /\ WorkflowInit({1})
    /\ IndexInit
    /\ StoreInit
    /\ ApiInit
    /\ env = FullEnv

Next ==
    \/ \E url \in Urls, st \in SummaryTypes :
           StartRun(1, url, st) /\ UNCHANGED <<ivars, svars, avars, env>>
    \/ ExtractContentNode(1) /\ UNCHANGED <<ivars, svars, avars, env>>
    \/ GenerateSummaryNode(1) /\ UNCHANGED <<ivars, svars, avars, env>>
    \/ ExtractKeyPointsNode(1) /\ UNCHANGED <<ivars, svars, avars, env>>
    \/ RunReturn(1) /\ UNCHANGED <<ivars, svars, avars, env>>

Spec == Init /\ [][Next]_vars

\* every await of a run completes (the HTTP GET has a timeout of 10 s, the
\* event loop resumes a coroutine whose await is done)
SpecLive == Spec /\ WF_vars(Next)

\* Two callers of SummarizerWorkflow.run on the one workflow object, their
\* coroutines interleaved at every await
ConcEnv ==
    [pages |-> { PrimaryPage(Txt("A", MinContentLen + 50), Txt("TA", 10)),
                 PrimaryPage(Txt("C", MinContentLen - 1), Txt("TC", 10)),
                 [BasePage EXCEPT !.whole = Txt("W", 400), !.title_tag = Elem(Txt("TT", 8))] },
     summaries |-> { Raises, Answers(Txt("S1", 120)), Answers(Txt("S2", 1500)) },
     keypoints |-> { Raises, Answers(JsonArray(2)), Answers(BulletList(1, 3)) }]

\* the arguments of the two calls
RunArgs(r) ==
    IF r = 1 THEN [url |-> "u1", summary_type |-> "brief"]
    ELSE [url |-> "u2", summary_type |-> "detailed"]

InitTwo ==
    /\ WorkflowInit(RunIds)
    /\ IndexInit
    /\ StoreInit
    /\ ApiInit
    /\ env = ConcEnv

NextTwo ==
    \E r \in RunIds :
        \/ StartRun(r, RunArgs(r).url, RunArgs(r).summary_type)
               /\ UNCHANGED <<ivars, svars, avars, env>>
        \/ ExtractContentNode(r) /\ UNCHANGED <<ivars, svars, avars, env>>
        \/ GenerateSummaryNode(r) /\ UNCHANGED <<ivars, svars, avars, env>>
        \/ ExtractKeyPointsNode(r) /\ UNCHANGED <<ivars, svars, avars, env>>
        \/ RunReturn(r) /\ UNCHANGED <<ivars, svars, avars, env>>

SpecTwo == InitTwo /\ [][NextTwo]_vars

\* The index alone: RAGService.initialize, then any caller of its methods
InitIndex ==
    /\ WorkflowInit({})
    /\ IndexInit
    /\ StoreInit
    /\ ApiInit
    /\ env = FullEnv

NextInitialize ==
    \/ BeginInitialize /\ UNCHANGED <<wvars, svars, avars, env>>
    \/ ConnectAttempt /\ UNCHANGED <<wvars, svars, avars, env>>
    \/ Backoff /\ UNCHANGED <<wvars, svars, avars, env>>
    \/ Setup /\ UNCHANGED <<wvars, svars, avars, env>>
    \/ InitializeExcept /\ UNCHANGED <<wvars, svars, avars, env>>

NextIndex ==
    \/ NextInitialize
    \/ \E id \in ArticleIds, a \in ArticleInputs, f \in Faults :
           AddArticle(id, a, f) /\ UNCHANGED <<wvars, avars, env>>
    \/ \E l \in Limits, t \in Thresholds, f \in Faults :
           Search(l, t, f) /\ UNCHANGED <<wvars, avars, env>>
    \/ \E id \in ArticleIds, f \in Faults :
           GetArticleById(id, f) /\ UNCHANGED <<wvars, avars, env>>
    \/ \E id \in ArticleIds, f \in Faults :
           DeleteArticle(id, f) /\ UNCHANGED <<wvars, avars, env>>
    \/ \E f \in Faults : GetCollectionStats(f) /\ UNCHANGED <<wvars, avars, env>>
    \/ CallReturns /\ UNCHANGED <<wvars, avars, env>>

SpecIndex == InitIndex /\ [][NextIndex]_vars

\* The application: startup_event, then POST /articles/ and POST /search/
InitApi ==
    /\ WorkflowInit({1})
    /\ IndexInit
    /\ StoreInit
    /\ ApiInit
    /\ env = ApiEnv

NextApi ==
    \/ NextInitialize
    \/ \E url \in Urls, st \in ApiSummaryTypes :
           CreateArticle(1, url, st) /\ UNCHANGED <<ivars, svars, env>>
    \/ ExtractContentNode(1) /\ UNCHANGED <<ivars, svars, avars, env>>
    \/ GenerateSummaryNode(1) /\ UNCHANGED <<ivars, svars, avars, env>>
    \/ ExtractKeyPointsNode(1) /\ UNCHANGED <<ivars, svars, avars, env>>
    \/ RunReturn(1) /\ UNCHANGED <<ivars, svars, avars, env>>
    \/ PipelineFailed(1) /\ UNCHANGED <<wvars, ivars, svars, env>>
    \/ PersistArticle(1) /\ UNCHANGED <<wvars, ivars, svars, env>>
    \/ PersistSummary(1) /\ UNCHANGED <<wvars, ivars, svars, env>>
    \/ IndexAndRespond(1) /\ UNCHANGED <<wvars, ivars, env>>
    \/ ResponseDelivered(1) /\ UNCHANGED <<ivars, store, env>>
    \/ \E l \in Limits, f \in Faults :
           SearchArticles(l, f) /\ UNCHANGED <<wvars, avars, env>>
    \/ CallReturns /\ UNCHANGED <<wvars, avars, env>>

SpecApi == InitApi /\ [][NextApi]_vars

(***************************************************************************)
(* Properties                                                              *)
(***************************************************************************)
TooShortMessage == ExtractionFailed("Article content too short or extraction failed")

\* the extraction of run r produced a text, and it is under 100 characters
\* once trimmed
ShortTextExtracted(r) ==
    /\ wpage[r] # Null
    /\ ~FetchRaises(wpage[r])
    /\ TLen(Strip(FinalContent(wpage[r]))) < 100

\* C1: a run whose final extracted text has fewer than 100 characters after
\* trimming fails with the extraction error and issues no generation
\* request; every generation request carries a text of at least 100
\* characters once trimmed.
C1_ShortTextNeverGenerates ==
    \A r \in RunIds :
        /\ \A i \in 1..Len(llmCalls[r]) : TLen(Strip(llmCalls[r][i].content)) >= 100
        /\ ShortTextExtracted(r) =>
              /\ llmCalls[r] = <<>>
              /\ wstate[r].error = TooShortMessage
              /\ wpc[r] # "returned"
              /\ wpc[r] = "raised" =>
                    wret[r] = [kind |-> "raise", error |-> TooShortMessage]

C1_Witness ==
    /\ wpc[1] = "raised"
    /\ ShortTextExtracted(1)
    /\ TLen(Strip(FinalContent(wpage[1]))) = 99
    /\ TLen(FinalContent(wpage[1])) >= 100
    /\ llmCalls[1] = <<>>

\* C2: the key_points list stored in the state and returned by run never
\* has more than 7 entries, whichever parse path produced it.
C2_AtMostSevenKeyPoints ==
    \A r \in RunIds :
        /\ Len(wstate[r].key_points) <= 7
        /\ wret[r].kind = "return" => Len(wret[r].key_points) <= 7

\* the neighbour's similarity as the claim computes it: 1 - distance
SimilarityOf(nb) == Scale - nb.distance

Returned(nb) ==
    \E i \in 1..Len(last.ret) : last.ret[i].article_id = nb.metadata.article_id

SearchReturned == last.op = "search" /\ last.kind = "return"

\* C3: search returns exactly the neighbours whose similarity 1 - d is at
\* least the threshold: none below it is returned, none at or above it is
\* dropped.
C3_SearchThreshold ==
    SearchReturned =>
        /\ \A j \in 1..Len(last.nbs) :
              Returned(last.nbs[j]) <=> SimilarityOf(last.nbs[j]) >= last.threshold
        /\ \A i \in 1..Len(last.ret) :
              \E j \in 1..Len(last.nbs) :
                  last.nbs[j].metadata.article_id = last.ret[i].article_id

C3_Witness ==
    /\ SearchReturned
    /\ last.threshold = 3000
    /\ \E j \in 1..Len(last.nbs) :
          SimilarityOf(last.nbs[j]) = 3000 /\ Returned(last.nbs[j])
    /\ \E j \in 1..Len(last.nbs) :
          SimilarityOf(last.nbs[j]) = 2999 /\ ~Returned(last.nbs[j])

\* C4: the scores of the list search returns never increase from one
\* result to the next.
C4_SearchOrdered ==
    SearchReturned =>
        \A i \in 1..(Len(last.ret) - 1) :
            last.ret[i].similarity_score >= last.ret[i + 1].similarity_score

C4_Witness ==
    /\ SearchReturned
    /\ Len(last.ret) >= 2
    /\ last.ret[1].similarity_score > last.ret[2].similarity_score

\* add_article was just called on a working index, for an id the store
\* already holds
ReAdded ==
    /\ last.op = "add"
    /\ last.fault = "none"
    /\ Enabled
    /\ HasId(last.before, DocId(last.id))

DocumentOf(call) ==
    NewDocument(call.id, call.input.content, call.input.summary, call.input.metadata)

SameAsStored == WithId(last.before, DocId(last.id)) = <<DocumentOf(last)>>

\* C5: add_article called again with the same id and the same content
\* reports success and leaves exactly one document for that id, the store
\* being no larger than before.
C5_AddIdempotent ==
    (ReAdded /\ SameAsStored) =>
        /\ last.kind = "return"
        /\ last.ret = TRUE
        /\ Len(WithId(store, DocId(last.id))) = 1
        /\ Len(store) = Len(last.before)

C5_Witness ==
    /\ ReAdded
    /\ SameAsStored
    /\ last.ret = TRUE
    /\ Len(store) = 2

\* C6: add_article called again with the same id leaves for that id the
\* vector, text and metadata of this second call.
C6_ReAddReplaces ==
    (ReAdded /\ last.kind = "return" /\ last.ret = TRUE) =>
        WithId(store, DocId(last.id)) = <<DocumentOf(last)>>

AllFailed == \A i \in 1..Len(probes) : probes[i] = "fail"

\* C7: at most 3 connection attempts are made, the backoff delays grow
\* strictly, and after 3 failed attempts initialize has returned without
\* raising, with client, collection and embedding model unset.
C7_BoundedRetries ==
    /\ Len(probes) <= 3
    /\ Len(sleeps) <= Len(probes)
    /\ \A i \in 1..(Len(sleeps) - 1) : sleeps[i] < sleeps[i + 1]
    /\ ipc # "raised"
    /\ (ipc = "done" /\ Len(probes) = 3 /\ AllFailed) => Disabled

C7_Witness ==
    /\ ipc = "done"
    /\ Len(probes) = 3
    /\ AllFailed
    /\ Disabled
    /\ sleeps = <<1, 2>>

Connected == probes # <<>> /\ probes[Len(probes)] = "ok"

\* C8: once a heartbeat has succeeded, no further connection attempt and
\* no further backoff sleep happens.
C8_SuccessStopsRetrying ==
    [][Connected => (probes' = probes /\ sleeps' = sleeps)]_vars

C8_Witness ==
    /\ ipc = "done"
    /\ Enabled
    /\ probes = <<"fail", "ok">>
    /\ sleeps = <<1>>

\* C9: on a disabled index every call returns, and reports unavailability:
\* add_article False, search [], get_article_by_id None, delete_article
\* False, get_collection_stats 0 articles.
C9_DisabledReportsUnavailable ==
    (ipc = "done" /\ Disabled /\ last # NoCall) =>
        /\ last.kind = "return"
        /\ last.op = "add" => last.ret = FALSE
        /\ last.op = "search" => last.ret = <<>>
        /\ last.op = "get" => last.ret = Null
        /\ last.op = "delete" => last.ret = FALSE
        /\ last.op = "stats" => last.ret.total_articles = 0

C9_Witness ==
    /\ ipc = "done"
    /\ Disabled
    /\ Len(probes) = 3
    /\ AllFailed
    /\ last.op = "add"
    /\ last.ret = FALSE

IndexFailed == Enabled /\ last # NoCall /\ last.fault # "none"

\* C10: when the embedding or the store fails on a connected index,
\* add_article returns False and search returns [], neither raises, and
\* create_article answers with the response built from the article and
\* summary rows it committed.
C10_IndexFailureAbsorbed ==
    /\ (IndexFailed /\ last.op = "add") => (last.kind = "return" /\ last.ret = FALSE)
    /\ (IndexFailed /\ last.op = "search") => (last.kind = "return" /\ last.ret = <<>>)
    /\ \A r \in RunIds :
          (apc[r] = "done" /\ alocal[r].summary # Null /\ IndexFailed) =>
              /\ aresp[r] = ArticleResponse(alocal[r].article, alocal[r].summary)
              /\ \E i \in 1..Len(db_articles) : db_articles[i] = alocal[r].article
              /\ \E i \in 1..Len(db_summaries) : db_summaries[i] = alocal[r].summary

C10_Witness ==
    /\ apc[1] = "done"
    /\ IndexFailed
    /\ last.op = "add"
    /\ last.ret = FALSE
    /\ aresp[1].status = 200
    /\ aresp[1].id = db_articles[Len(db_articles)].id
    /\ aresp[1].summary.summary_text = db_summaries[Len(db_summaries)].summary_text

Failed(r) == wstate[r].error # NoError
Ended(r) == wpc[r] \in {"returned", "raised"}
Summarized(r) == wpc[r] = "extract_key_points" /\ ~Failed(r)

\* the key-point exchange of run r has happened and was a failure: the
\* backend raised or its content was no string
KeyPointsFailed(r) ==
    /\ Len(llmCalls[r]) = 2
    /\ (llmCalls[r][2].response.raises \/ ~llmCalls[r][2].response.is_str)

\* C11: a started run ends, returned or raised and never both; the failure
\* marker carries the message of the extraction stage or of the summary
\* stage only; a run that reached Summarized ends returned.
C11_RunEndsInOneOutcome ==
    /\ [](\A r \in RunIds :
            /\ wpc[r] = "returned" => (~Failed(r) /\ wret[r].kind = "return")
            /\ wpc[r] = "raised" => (Failed(r) /\ wret[r].kind = "raise")
            /\ Failed(r) => wstate[r].error[1] \in
                   {"Content extraction failed: ", "Summary generation failed: "})
    /\ \A r \in RunIds : (wpc[r] = EntryPoint) ~> Ended(r)
    /\ \A r \in RunIds : Summarized(r) ~> (wpc[r] = "returned")

C11_Witness ==
    /\ wpc[1] = "returned"
    /\ KeyPointsFailed(1)
    /\ llmCalls[1][2].response.raises

\* C12: when the key-point stage fails after a summary was produced, run
\* returns, with key_points empty and with the title, text and summary the
\* earlier stages produced.
C12_KeyPointFailureDegrades ==
    \A r \in RunIds :
        KeyPointsFailed(r) =>
            /\ ~Failed(r)
            /\ wpc[r] # "raised"
            /\ wstate[r].key_points = <<>>
            /\ wpc[r] = "returned" =>
                  /\ wret[r].kind = "return"
                  /\ wret[r].key_points = <<>>
                  /\ wret[r].content = FinalContent(wpage[r])
                  /\ wret[r].title = llmCalls[r][1].title
                  /\ wret[r].summary = llmCalls[r][1].response.content

C12_Witness ==
    /\ wpc[1] = "returned"
    /\ KeyPointsFailed(1)
    /\ llmCalls[1][2].response = Blocks
    /\ Truthy(wret[1].summary)
    /\ wret[1].key_points = <<>>

\* the state the extraction stage of run r left behind
AfterExtraction(r) ==
    ExtractContent(InitialState(wstate[r].url, wstate[r].summary_type), wpage[r])

\* C13: a failed run raises the recorded message and hands over nothing
\* else; the message is that of the first stage that failed, which no later
\* stage changes.
C13_FailureSurfacesFirstMessage ==
    \A r \in RunIds :
        /\ wpc[r] = "raised" =>
              /\ wret[r] = [kind |-> "raise", error |-> wstate[r].error]
              /\ DOMAIN wret[r] = {"kind", "error"}
        /\ (wpage[r] # Null /\ AfterExtraction(r).error # NoError) =>
              /\ wstate[r].error = AfterExtraction(r).error
              /\ llmCalls[r] = <<>>
              /\ wpc[r] # "returned"
        /\ (llmCalls[r] # <<>> /\ llmCalls[r][1].response.raises) =>
              /\ wstate[r].error = SummaryFailed("BedrockError")
              /\ Len(llmCalls[r]) = 1
              /\ wpc[r] # "returned"

C13_Witness ==
    /\ wpc[1] = "raised"
    /\ llmCalls[1] # <<>>
    /\ llmCalls[1][1].response.raises
    /\ wret[1] = [kind |-> "raise", error |-> SummaryFailed("BedrockError")]

\* C14: a summary request that the backend fails or answers with an empty
\* text makes the run fail: no key-point request follows and run returns no
\* result.
C14_EmptySummaryFails ==
    \A r \in RunIds :
        (llmCalls[r] # <<>> /\ (llmCalls[r][1].response.raises
                                \/ ~Truthy(llmCalls[r][1].response.content))) =>
            /\ Failed(r)
            /\ Len(llmCalls[r]) = 1
            /\ wpc[r] # "returned"

\* the key-point exchange of run r has happened and brought back a string
KeyPointsAnswered(r) ==
    /\ Len(llmCalls[r]) = 2
    /\ ~llmCalls[r][2].response.raises
    /\ llmCalls[r][2].response.is_str

KeyPointsText(r) == llmCalls[r][2].response.content

\* the strings a, b, a, ... that JsonArray(n) spells out
StringsOf(n) == [i \in 1..n |-> JStr(<<Letter(i)>>)]

SpreadArray ==
    <<"[", NL, " ", QUOTE, "a", QUOTE, ",", NL, " ", QUOTE, "b", QUOTE, NL, "]", NL>>

\* C15: a key-point answer that is a JSON array of strings comes back from
\* the run as those strings, in order and unchanged.
C15_JsonArrayReturnedAsIs ==
    \A r \in RunIds :
        KeyPointsAnswered(r) =>
            /\ \A n \in 0..MaxPoints :
                  KeyPointsText(r) = JsonArray(n) =>
                      /\ wstate[r].key_points = StringsOf(n)
                      /\ wpc[r] = "returned" => wret[r].key_points = StringsOf(n)
            /\ KeyPointsText(r) = SpreadArray =>
                  /\ wstate[r].key_points = StringsOf(2)
                  /\ wpc[r] = "returned" => wret[r].key_points = StringsOf(2)

C15_Witness ==
    /\ wpc[1] = "returned"
    /\ KeyPointsAnswered(1)
    /\ KeyPointsText(1) = JsonArray(4)
    /\ wret[1].key_points = <<JStr(<<"a">>), JStr(<<"b">>), JStr(<<"a">>), JStr(<<"b">>)>>

\* the line-splitting the claim describes: the markers are '-', the bullet
\* and '*'
ClaimedMarkers == {"-", " ", BULLET, "*"}

ClaimedLine(raw) ==
    LET line == StripChars(raw) IN
    IF line # <<>> /\ ~StartsWith(line, "[") /\ ~StartsWith(line, "]")
    THEN LET l2 == StripChars(LStripChars(line, ClaimedMarkers))
         IN  IF StartsWith(l2, QUOTE) /\ EndsWith(l2, QUOTE)
             THEN SubSeq(l2, 2, Len(l2) - 1) ELSE l2
    ELSE <<>>

RECURSIVE ClaimedLines(_)
ClaimedLines(lines) ==
    IF lines = <<>> THEN <<>>
    ELSE (IF ClaimedLine(Head(lines)) # <<>> THEN <<JStr(ClaimedLine(Head(lines)))>>
          ELSE <<>>) \o ClaimedLines(Tail(lines))

ClaimedFallback(s) ==
    LET points == ClaimedLines(SplitNl(StripChars(s), <<>>))
    IN  IF Len(points) <= 7 THEN points ELSE SubSeq(points, 1, 7)

\* C16: a key-point answer that is no JSON list is split into lines; empty
\* lines and lines opening with a bracket are dropped, the leading markers
\* '-', bullet and '*' and a surrounding pair of double quotes are removed,
\* and the lines keep their order.
C16_FallbackStripsMarkers ==
    \A r \in RunIds :
        (KeyPointsAnswered(r) /\ ~IsJsonList(KeyPointsText(r))) =>
            wstate[r].key_points = ClaimedFallback(KeyPointsText(r))

BriefTemplate == "Provide a brief 2-3 sentence summary of the main points."
ComprehensiveTemplate ==
    "Provide a comprehensive summary that covers all major points and key insights."
DetailedTemplate == "Provide a detailed summary with in-depth analysis and context."

\* C17: the template of a summary request is fixed by summary_type: brief,
\* comprehensive and detailed have three different templates, every other
\* value has the comprehensive one.
C17_TemplateSelection ==
    /\ BriefTemplate # ComprehensiveTemplate
    /\ BriefTemplate # DetailedTemplate
    /\ ComprehensiveTemplate # DetailedTemplate
    /\ \A r \in RunIds :
          llmCalls[r] # <<>> =>
              llmCalls[r][1].prompt =
                  CASE wstate[r].summary_type = "brief" -> BriefTemplate
                    [] wstate[r].summary_type = "detailed" -> DetailedTemplate
                    [] OTHER -> ComprehensiveTemplate

C17_Witness ==
    /\ llmCalls[1] # <<>>
    /\ wstate[1].summary_type = "bogus"
    /\ llmCalls[1][1].prompt = ComprehensiveTemplate

\* the page of run r as it would be had the primary tier found no text
\* instead of raising
PrimaryEmptied(page) == [page EXCEPT !.np_raises = FALSE, !.np_text = Empty]

\* C18: when the primary tier raises, the secondary tier is tried all the
\* same: the extraction ends as it does for a primary tier that found no
\* text.
C18_SecondaryTierAfterPrimaryRaises ==
    \A r \in RunIds :
        (wpc[r] = NextNode(EntryPoint) /\ wpage[r].np_raises) =>
            wstate[r] = ExtractContent(InitialState(wstate[r].url, wstate[r].summary_type),
                                       PrimaryEmptied(wpage[r]))

SupportedTypes == {"brief", "comprehensive", "detailed"}

\* C19: the summary_type of every pipeline state, of every article row and
\* of every indexed document is brief, comprehensive or detailed.
C19_SummaryTypeSupported ==
    /\ \A r \in RunIds : wstate[r].summary_type \in SupportedTypes
    /\ \A i \in 1..Len(db_articles) : db_articles[i].summary_type \in SupportedTypes
    /\ \A i \in 1..Len(store) : store[i].metadata.summary_type \in SupportedTypes

StageOrder ==
    { <<"idle", "extract_content">>, <<"extract_content", "generate_summary">>,
      <<"generate_summary", "extract_key_points">>, <<"extract_key_points", "END">>,
      <<"END", "returned">>, <<"END", "raised">> }

\* C20: a run goes through extraction, summary generation and key-point
\* extraction in that order, one stage at a time; the summary request is
\* made after extraction has finished and carries its text, the key-point
\* request is made after the summary stage, and each is made at most once.
C20_StagesInSequence ==
    /\ [][\A r \in RunIds :
            wpc'[r] # wpc[r] => <<wpc[r], wpc'[r]>> \in StageOrder]_vars
    /\ [](\A r \in RunIds :
            /\ Len(llmCalls[r]) <= 2
            /\ wpc[r] \in {"idle", "extract_content", "generate_summary"} =>
                  llmCalls[r] = <<>>
            /\ wpc[r] = "extract_key_points" => Len(llmCalls[r]) <= 1
            /\ Len(llmCalls[r]) >= 1 =>
                  /\ llmCalls[r][1].stage = "generate_summary"
                  /\ llmCalls[r][1].content = FinalContent(wpage[r])
            /\ Len(llmCalls[r]) = 2 =>
                  /\ llmCalls[r][2].stage = "extract_key_points"
                  /\ wstate[r].summary = llmCalls[r][1].response.content)

C20_Witness ==
    /\ wpc[1] = "returned"
    /\ Len(llmCalls[1]) = 2
    /\ llmCalls[1][1].stage = "generate_summary"
    /\ llmCalls[1][2].stage = "extract_key_points"

\* what run r produces alone: its own arguments, its own page and the
\* answers to its own requests, put through the three stages
Alone(r) ==
    LET s0 == InitialState(RunArgs(r).url, RunArgs(r).summary_type)
        s1 == IF wpage[r] = Null THEN s0 ELSE ExtractContent(s0, wpage[r])
        s2 == IF s1.error # NoError \/ Len(llmCalls[r]) < 1 THEN s1
              ELSE GenerateSummary(s1, llmCalls[r][1].response)
        s3 == IF s2.error # NoError \/ Len(llmCalls[r]) < 2 THEN s2
              ELSE ExtractKeyPoints(s2, llmCalls[r][2].response)
    IN  s3

\* C21: under every interleaving of two runs each run's state, requests and
\* outcome are those it produces alone, and a step of one run leaves the
\* other run's state, requests and outcome as they were.
C21_RunsIndependent ==
    /\ [](\A r \in RunIds :
            /\ wpc[r] # "idle" => wstate[r] = Alone(r)
            /\ \A i \in 1..Len(llmCalls[r]) :
                  /\ llmCalls[r][i].content = FinalContent(wpage[r])
                  /\ llmCalls[r][i].title = Alone(r).title
            /\ Ended(r) => wret[r] = RunResult(Alone(r)))
    /\ [][\A r \in RunIds :
            wpc'[r] = wpc[r] =>
                /\ wstate'[r] = wstate[r]
                /\ wret'[r] = wret[r]
                /\ llmCalls'[r] = llmCalls[r]
                /\ wpage'[r] = wpage[r]]_vars

C21_Witness ==
    /\ wpc[1] = "returned"
    /\ wpc[2] = "extract_key_points"
    /\ wpage[1] # wpage[2]
    /\ ~Failed(2)
    /\ wret[1].summary # wstate[2].summary

\* the selection the claim describes: the first selector whose text is not
\* empty
RECURSIVE ClaimedSelect(_, _)
ClaimedSelect(sel, i) ==
    IF i > Len(sel) THEN Empty
    ELSE IF sel[i].present /\ Truthy(sel[i].text) THEN sel[i].text
    ELSE ClaimedSelect(sel, i + 1)

SecondaryTierUsed(page) == ~page.np_raises /\ ~Truthy(page.np_text) /\ ~page.get_raises

\* C22: in the secondary tier the text taken is that of the first selector,
\* in priority order, whose text is not empty; an element matched earlier
\* with empty text does not keep it from being used.
C22_FirstNonEmptySelector ==
    \A r \in RunIds :
        (/\ wpc[r] = NextNode(EntryPoint)
         /\ SecondaryTierUsed(wpage[r])
         /\ Truthy(ClaimedSelect(wpage[r].sel, 1))) =>
            wstate[r].content = Truncate(CleanUp(ClaimedSelect(wpage[r].sel, 1)))

\* C23: a summary stage or key-point stage entered with the failure marker
\* set leaves every field of the state as it was and makes no generation
\* request; no stage changes url.
C23_FailedStagesAreNoOps ==
    /\ [][\A r \in RunIds :
            (wpc[r] \in {"generate_summary", "extract_key_points"}
             /\ Failed(r) /\ wpc'[r] # wpc[r]) =>
                /\ wstate'[r] = wstate[r]
                /\ llmCalls'[r] = llmCalls[r]]_vars
    /\ [][\A r \in RunIds :
            wpc[r] \in {"extract_content", "generate_summary", "extract_key_points"} =>
                wstate'[r].url = wstate[r].url]_vars

C23_Witness ==
    /\ wpc[1] = "END"
    /\ wstate[1].error = TooShortMessage
    /\ wstate[1].summary = Empty
    /\ wstate[1].key_points = <<>>
    /\ wstate[1].url = "u2"
    /\ llmCalls[1] = <<>>

\* C24: the summary excerpt of every search result has at most 200
\* characters.
C24_ExcerptAtMost200 ==
    SearchReturned =>
        \A i \in 1..Len(last.ret) : TLen(last.ret[i].summary_excerpt) <= 200

\* C25: every entry of the key-point list of a run is a string.
C25_KeyPointsAreStrings ==
    \A r \in RunIds :
        /\ \A i \in 1..Len(wstate[r].key_points) : wstate[r].key_points[i].t = "str"
        /\ wret[r].kind = "return" =>
              \A i \in 1..Len(wret[r].key_points) : wret[r].key_points[i].t = "str"

Committed(rows, row) == \E i \in 1..Len(rows) : rows[i] = row

\* C26: create_article calls add_article only for a run that returned, once
\* the article row and the summary row are both committed, and with the id
\* of that article row; every indexed document belongs to a committed
\* article that has a committed summary.
C26_IndexedAfterPersisted ==
    /\ [][(last' # last /\ last'.op = "add") =>
            \E r \in RunIds :
                /\ apc[r] = "summary_committed"
                /\ wpc[r] = "returned"
                /\ Committed(db_articles, alocal[r].article)
                /\ Committed(db_summaries, alocal[r].summary)
                /\ alocal[r].summary.article_id = alocal[r].article.id
                /\ last'.id = alocal[r].article.id]_vars
    /\ [](\A i \in 1..Len(store) :
            /\ \E j \in 1..Len(db_articles) :
                  db_articles[j].id = store[i].metadata.article_id
            /\ \E k \in 1..Len(db_summaries) :
                  db_summaries[k].article_id = store[i].metadata.article_id)

C26_Witness ==
    /\ apc[1] = "done"
    /\ last.op = "add"
    /\ last.ret = TRUE
    /\ last.id = 2
    /\ HasId(store, DocId(2))
    /\ Len(db_summaries) = 2

\* C27: once initialize has returned, the client, the collection and the
\* embedding model are all set or all unset, and no operation of the index
\* changes any of them.
C27_HandlesAllOrNothing ==
    /\ [](ipc = "done" => (Enabled \/ Disabled))
    /\ [][ipc = "done" =>
            /\ client' = client
            /\ collection' = collection
            /\ embedding_model' = embedding_model]_vars

C27_Witness ==
    /\ ipc = "done"
    /\ Disabled
    /\ Connected
    /\ last.op = "stats"
    /\ last.ret.total_articles = 0

\* C28: when create_article has answered with an error, no article row and
\* no summary row of that request is committed; between requests every
\* committed article has a committed summary.
C28_ErrorLeavesNoRecord ==
    /\ \A r \in RunIds :
          (apc[r] = "done" /\ aresp[r].status = 500) =>
              /\ ~Committed(db_articles, alocal[r].article)
              /\ ~Committed(db_summaries, alocal[r].summary)
    /\ (\A r \in RunIds : apc[r] = "idle") =>
          \A i \in 1..Len(db_articles) :
              \E k \in 1..Len(db_summaries) :
                  db_summaries[k].article_id = db_articles[i].id

====
